---------------------------- MODULE Spec2Model ----------------------------
(***************************************************************************)
(* State-machine model of op_elo_backend: the rating ledger                *)
(* (PUT /characters/:id/elo), the trend accumulator calculateChange and    *)
(* the roster synchronisation (POST /scrape-characters).                   *)
(*                                                                         *)
(* The PostgreSQL table `characters` is the shared state.  Every           *)
(* pool.query is one atomic step of the database; the JavaScript between   *)
(* two awaits / callbacks is one atomic step of the (single threaded)      *)
(* server.  Requests interleave at those points only.                      *)
(***************************************************************************)
EXTENDS Integers, Sequences, FiniteSets, TLC

VARIABLES
    characters,   \* the table: a function from the ids of the stored rows to rows
    nextId,       \* gen_random_uuid(): ids are numbered in the order they are drawn
    req,          \* PUT /characters/:id/elo requests, one per slot
    sync,         \* POST /scrape-characters requests, one per slot
    mergeIn,      \* arguments of a direct call of calculateChange
    mergeOut,     \* its result
    images,       \* POST /update-character-images requests, one per slot
    reads,        \* GET /characters requests, one per slot
    rowsIn,       \* the rows of the listing page of a direct call of the scraper
    rowsOut       \* the entries it returns

vars == <<characters, nextId, req, sync, mergeIn, mergeOut, images, reads, rowsIn, rowsOut>>

---------------------------------------------------------------------------
(* Bounds *)

\* number of PUT /characters/:id/elo requests of one behaviour
MaxReq == 2
\* number of POST /scrape-characters requests of one behaviour
MaxSync == 2
\* longest entry list the scraper yields
MaxFetch == 2
\* calculateChange is called directly on -MergeMax..MergeMax
MergeMax == 7
\* number of POST /update-character-images requests of one behaviour
MaxImages == 1
\* number of GET /characters requests of one behaviour
MaxReads == 2
\* most table rows of a listing page handed to the scraper directly
MaxRows == 2

ReqSlots == 1..MaxReq
SyncSlots == 1..MaxSync

---------------------------------------------------------------------------
(* JavaScript values, as far as the handlers look at them *)

JsUndefined == [t |-> "undefined", n |-> 0, s |-> ""]
JsNull == [t |-> "null", n |-> 0, s |-> ""]
JsNaN == [t |-> "NaN", n |-> 0, s |-> ""]
JsNumber(n) == [t |-> "number", n |-> n, s |-> ""]
JsString(s) == [t |-> "string", n |-> 0, s |-> s]
JsBoolean(b) == [t |-> "boolean", n |-> IF b THEN 1 ELSE 0, s |-> ""]

\* the integers whose decimal form the model can read back from a string
Decimals == -99..99

IsDecimal(s) == \E n \in Decimals : ToString(n) = s

DecimalValue(s) == CHOOSE n \in Decimals : ToString(n) = s

\* Number(v): [nan, n]
ToNumber(v) ==
    CASE v.t = "number" -> [nan |-> FALSE, n |-> v.n]
      [] v.t = "null" -> [nan |-> FALSE, n |-> 0]
      [] v.t = "boolean" -> [nan |-> FALSE, n |-> v.n]
      [] v.t = "string" ->
            IF v.s = "" THEN [nan |-> FALSE, n |-> 0]
            ELSE IF IsDecimal(v.s) THEN [nan |-> FALSE, n |-> DecimalValue(v.s)]
            ELSE [nan |-> TRUE, n |-> 0]
      [] OTHER -> [nan |-> TRUE, n |-> 0]

\* String(v)
JsToString(v) ==
    CASE v.t = "number" -> ToString(v.n)
      [] v.t = "string" -> v.s
      [] v.t = "boolean" -> IF v.n = 1 THEN "true" ELSE "false"
      [] v.t = "null" -> "null"
      [] v.t = "NaN" -> "NaN"
      [] OTHER -> "undefined"

\* the global isNaN(v): Number(v) is NaN
isNaN(v) == ToNumber(v).nan

\* v >= 0 and v <= 0 (false when Number(v) is NaN)
JsGeZero(v) == ~ToNumber(v).nan /\ ToNumber(v).n >= 0
JsLeZero(v) == ~ToNumber(v).nan /\ ToNumber(v).n <= 0

\* a + b: concatenation when either is a string, addition of numbers otherwise
JsAdd(a, b) ==
    IF a.t = "string" \/ b.t = "string"
    THEN JsString(JsToString(a) \o JsToString(b))
    ELSE IF ToNumber(a).nan \/ ToNumber(b).nan
         THEN JsNaN
         ELSE JsNumber(ToNumber(a).n + ToNumber(b).n)

---------------------------------------------------------------------------
(* ChangeAccumulator *)

calculateChange_strict(eloChange, recentChange) ==
    IF (ToNumber(eloChange).n > 0 /\ ToNumber(recentChange).n > 0)
       \/ (ToNumber(eloChange).n < 0 /\ ToNumber(recentChange).n < 0)
    THEN JsAdd(recentChange, eloChange)
    ELSE eloChange

calculateChange(eloChange, recentChange) ==
    IF (JsGeZero(eloChange) /\ JsGeZero(recentChange))
       \/ (JsLeZero(eloChange) /\ JsLeZero(recentChange))
    THEN JsAdd(recentChange, eloChange)
    ELSE eloChange

MergeRange == -MergeMax..MergeMax

\* one direct call calculateChange(mergeIn[1], mergeIn[2])
CallCalculateChange ==
    /\ mergeOut = JsUndefined
    /\ mergeOut' = calculateChange(JsNumber(mergeIn[1]), JsNumber(mergeIn[2]))
    /\ UNCHANGED <<characters, nextId, req, sync, mergeIn, images, reads, rowsIn, rowsOut>>

---------------------------------------------------------------------------
(* The table `characters` *)

\* SQL NULL in an INTEGER column (the columns carry no NOT NULL)
SqlNull == -1000000

\* a + b in SQL: NULL when either is NULL
SqlAdd(a, b) == IF a = SqlNull \/ b = SqlNull THEN SqlNull ELSE a + b

\* image_path of a row without image
NoImage == "null"

Row(id, first_name, image_path, elo, recent_change, wins, losses) ==
    [id |-> id, first_name |-> first_name, last_name |-> "", title |-> "",
     image_path |-> image_path, elo |-> elo, recent_change |-> recent_change,
     wins |-> wins, losses |-> losses]

\* the rows stored when the server starts: an earlier roster, already rated
InitCharacters ==
    (1 :> Row(1, "Luffy", "luffy.png", 1010, 10, 2, 1))
    @@ (2 :> Row(2, "Zoro", NoImage, 1000, 0, 0, 0))

\* how node-postgres and PostgreSQL read a JavaScript value bound to an INTEGER
\* parameter: null is NULL, a number is itself, a string is parsed, true/false
\* are sent as the text "true"/"false", which is no integer
PgInteger(v) ==
    CASE v.t = "number" -> [err |-> FALSE, val |-> v.n]
      [] v.t \in {"null", "undefined"} -> [err |-> FALSE, val |-> SqlNull]
      [] v.t = "string" /\ IsDecimal(v.s) -> [err |-> FALSE, val |-> DecimalValue(v.s)]
      [] OTHER -> [err |-> TRUE, val |-> 0]

---------------------------------------------------------------------------
(* Request bodies *)

allowedFields == <<"wins_change", "losses_change", "elo_change", "recent_change">>

\* Object.keys(body) lists the keys in the order the client wrote them; the
\* bodies of the model write the four fields first
KeyOrder == allowedFields \o <<"foo">>

Body(w, l, e, r) ==
    ("wins_change" :> JsNumber(w)) @@ ("losses_change" :> JsNumber(l))
    @@ ("elo_change" :> JsNumber(e)) @@ ("recent_change" :> JsNumber(r))

Without(body, f) == [k \in DOMAIN body \ {f} |-> body[k]]

With(body, f, v) == (f :> v) @@ body

\* request.body.f: undefined when the key is absent
Field(body, f) == IF f \in DOMAIN body THEN body[f] ELSE JsUndefined

\* <<wins_change, losses_change, elo_change, recent_change>> of well-formed bodies
Deltas == {<<1, 0, 3, 2>>, <<0, 1, -2, 2>>, <<-1, 0, 0, -4>>}

NumericBodies == {Body(d[1], d[2], d[3], d[4]) : d \in Deltas}

NonNumbers == {JsNull, JsBoolean(TRUE), JsString(""), JsString("5"), JsString("abc")}

BaseBody == Body(1, 0, 3, 2)

Fields == {allowedFields[i] : i \in 1..Len(allowedFields)}

\* bodies with one field omitted, one field not a number, a field too many
MalformedBodies ==
    {Without(BaseBody, f) : f \in Fields}
    \cup {With(BaseBody, f, v) : f \in Fields, v \in NonNumbers}
    \cup {With(b, "foo", JsNumber(1)) :
            b \in {BaseBody} \cup {Without(BaseBody, f) : f \in Fields}
                  \cup {With(BaseBody, f, JsString("abc")) : f \in Fields}}

Bodies == NumericBodies \cup MalformedBodies

\* the id of the URL: blank, the id of no row ever stored, or an id drawn so far
BlankId == -1
UnknownId == 0
Ids == {BlankId} \cup (UnknownId..(nextId - 1))

---------------------------------------------------------------------------
(* RatingLedger: PUT /characters/:id/elo *)

NoParams ==
    [wins |-> JsUndefined, losses |-> JsUndefined, elo |-> JsUndefined,
     last_change |-> JsUndefined]

\* response.status(status).json({error, message, invalidFields, character});
\* message holds the field names the message text enumerates
Response(status, error, message, invalidFields, character) ==
    [status |-> status, error |-> error, message |-> message,
     invalidFields |-> invalidFields, character |-> character]

NoResponse == Response(0, "", <<>>, <<>>, <<>>)

IdleReq ==
    [pc |-> "idle", id |-> UnknownId, body |-> [k \in {} |-> JsUndefined],
     params |-> NoParams, err |-> FALSE, rows |-> <<>>, response |-> NoResponse]

Answered(id, body, response) ==
    [IdleReq EXCEPT !.pc = "done", !.id = id, !.body = body, !.response = response]

\* wins_change === undefined || losses_change === undefined || ...
MissingFields_all(body) == \A f \in Fields : Field(body, f) = JsUndefined

MissingFields(body) == \E f \in Fields : Field(body, f) = JsUndefined

\* isNaN(wins_change) || isNaN(losses_change) || ...
NonNumeric(body) == \E f \in Fields : isNaN(Field(body, f))

\* Object.keys(request.body).filter(field => !allowedFields.includes(field))
InvalidFields_kept(body) ==
    SelectSeq(KeyOrder, LAMBDA f : f \in DOMAIN body /\ f \in Fields)

InvalidFields(body) ==
    SelectSeq(KeyOrder, LAMBDA f : f \in DOMAIN body /\ f \notin Fields)

\* the handler up to the point where it hands the UPDATE to the pool
updateCharacterElo(r, id, body) ==
    /\ req[r].pc = "idle"
    /\ \A q \in ReqSlots : q < r => req[q].pc # "idle"
    /\ req' = [req EXCEPT ![r] =
          IF id = BlankId
          THEN Answered(id, body, Response(400, "Invalid input", <<>>, <<>>, <<>>))
          ELSE IF MissingFields(body)
          THEN Answered(id, body,
                   Response(400, "Missing required fields", allowedFields, <<>>, <<>>))
          ELSE IF NonNumeric(body)
          THEN Answered(id, body, Response(400, "Invalid input", <<>>, <<>>, <<>>))
          ELSE IF InvalidFields(body) # <<>>
          THEN Answered(id, body,
                   Response(400, "Invalid fields provided", allowedFields,
                            InvalidFields(body), <<>>))
          ELSE [IdleReq EXCEPT
                  !.pc = "query", !.id = id, !.body = body,
                  !.params = [wins |-> body["wins_change"],
                              losses |-> body["losses_change"],
                              elo |-> body["elo_change"],
                              last_change |-> calculateChange(body["elo_change"],
                                                              body["recent_change"])]]]
    /\ UNCHANGED <<characters, nextId, sync, mergeIn, mergeOut, images, reads, rowsIn, rowsOut>>

\* SET wins = wins + $1, losses = losses + $2, elo = elo + $3, recent_change = $4
SqlUpdate_absolute(row, p) ==
    [row EXCEPT !.wins = p.wins, !.losses = p.losses, !.elo = p.elo,
                !.recent_change = p.last_change]

SqlUpdate_accumulated(row, p) ==
    [row EXCEPT !.wins = SqlAdd(@, p.wins), !.losses = SqlAdd(@, p.losses),
                !.elo = SqlAdd(@, p.elo),
                !.recent_change = calculateChange(JsNumber(p.elo), JsNumber(@)).n]

SqlUpdate(row, p) ==
    [row EXCEPT !.wins = SqlAdd(@, p.wins), !.losses = SqlAdd(@, p.losses),
                !.elo = SqlAdd(@, p.elo), !.recent_change = p.last_change]

\* the parameters as PostgreSQL reads them
Bound(params) ==
    [wins |-> PgInteger(params.wins), losses |-> PgInteger(params.losses),
     elo |-> PgInteger(params.elo), last_change |-> PgInteger(params.last_change)]

BindError(params) ==
    LET b == Bound(params)
    IN b.wins.err \/ b.losses.err \/ b.elo.err \/ b.last_change.err

BoundValues(params) ==
    LET b == Bound(params)
    IN [wins |-> b.wins.val, losses |-> b.losses.val, elo |-> b.elo.val,
        last_change |-> b.last_change.val]

\* PostgreSQL runs the UPDATE ... WHERE id = $5 RETURNING * as one statement
DbUpdate(r) ==
    /\ req[r].pc = "query"
    /\ IF BindError(req[r].params)
       THEN /\ req' = [req EXCEPT ![r].pc = "result", ![r].err = TRUE]
            /\ UNCHANGED characters
       ELSE IF req[r].id \in DOMAIN characters
       THEN LET row == SqlUpdate(characters[req[r].id], BoundValues(req[r].params))
            IN /\ characters' = [characters EXCEPT ![req[r].id] = row]
               /\ req' = [req EXCEPT ![r].pc = "result", ![r].rows = <<row>>]
       ELSE /\ req' = [req EXCEPT ![r].pc = "result"]
            /\ UNCHANGED characters
    /\ UNCHANGED <<nextId, sync, mergeIn, mergeOut, images, reads, rowsIn, rowsOut>>

\* the pool fails the query (connection lost, an id that is no uuid, an INTEGER
\* out of range): nothing is applied
DbUpdateFails(r) ==
    /\ req[r].pc = "query"
    /\ req' = [req EXCEPT ![r].pc = "result", ![r].err = TRUE]
    /\ UNCHANGED <<characters, nextId, sync, mergeIn, mergeOut, images, reads, rowsIn, rowsOut>>

\* the callback of pool.query
QueryCallback_norows(r) ==
    /\ req[r].pc = "result"
    /\ req' = [req EXCEPT ![r].pc = "done", ![r].response =
          IF req[r].err
          THEN Response(500, "Database error", <<>>, <<>>, <<>>)
          ELSE Response(200, "", <<>>, <<>>, req[r].rows)]
    /\ UNCHANGED <<characters, nextId, sync, mergeIn, mergeOut, images, reads, rowsIn, rowsOut>>

QueryCallback(r) ==
    /\ req[r].pc = "result"
    /\ req' = [req EXCEPT ![r].pc = "done", ![r].response =
          IF req[r].err
          THEN Response(500, "Database error", <<>>, <<>>, <<>>)
          ELSE IF Len(req[r].rows) = 0
          THEN Response(404, "Character not found", <<>>, <<>>, <<>>)
          ELSE Response(200, "", <<>>, <<>>, <<req[r].rows[1]>>)]
    /\ UNCHANGED <<characters, nextId, sync, mergeIn, mergeOut, images, reads, rowsIn, rowsOut>>

---------------------------------------------------------------------------
(* The handler of PUT /characters/:id/elo in index.js *)

allowedFieldsIndex == <<"wins", "losses", "elo", "recent_change">>

FieldsIndex == {allowedFieldsIndex[i] : i \in 1..Len(allowedFieldsIndex)}

KeyOrderIndex == allowedFieldsIndex \o <<"foo">>

FullBodyIndex ==
    ("wins" :> JsNumber(1)) @@ ("losses" :> JsNumber(0))
    @@ ("elo" :> JsNumber(3)) @@ ("recent_change" :> JsNumber(2))

\* all four fields, one field alone, no field, a field too many
BodiesIndex ==
    {FullBodyIndex, [k \in {} |-> JsUndefined], With(FullBodyIndex, "foo", JsNumber(1))}
    \cup {[k \in {f} |-> FullBodyIndex[k]] : f \in FieldsIndex}

InvalidFieldsIndex(body) ==
    SelectSeq(KeyOrderIndex, LAMBDA f : f \in DOMAIN body /\ f \notin FieldsIndex)

\* the handler up to the point where it hands the UPDATE it built to the pool
updateCharacterEloIndex(r, id, body) ==
    /\ req[r].pc = "idle"
    /\ \A q \in ReqSlots : q < r => req[q].pc # "idle"
    /\ req' = [req EXCEPT ![r] =
          IF InvalidFieldsIndex(body) # <<>>
          THEN Answered(id, body,
                   Response(400, "Invalid fields provided", allowedFieldsIndex,
                            InvalidFieldsIndex(body), <<>>))
          ELSE IF DOMAIN body = {}
          THEN Answered(id, body,
                   Response(400, "No valid fields provided", allowedFieldsIndex,
                            <<>>, <<>>))
          ELSE [IdleReq EXCEPT
                  !.pc = "query", !.id = id, !.body = body,
                  !.params = [wins |-> Field(body, "wins"),
                              losses |-> Field(body, "losses"),
                              elo |-> Field(body, "elo"),
                              last_change |-> Field(body, "recent_change")]]]
    /\ UNCHANGED <<characters, nextId, sync, mergeIn, mergeOut, images, reads, rowsIn, rowsOut>>

\* SET wins = $1, losses = $2, elo = $3, recent_change = $4, the fields given only
SqlUpdateIndex(row, params) ==
    [row EXCEPT
       !.wins = IF params.wins = JsUndefined THEN @ ELSE PgInteger(params.wins).val,
       !.losses = IF params.losses = JsUndefined THEN @ ELSE PgInteger(params.losses).val,
       !.elo = IF params.elo = JsUndefined THEN @ ELSE PgInteger(params.elo).val,
       !.recent_change = IF params.last_change = JsUndefined THEN @
                         ELSE PgInteger(params.last_change).val]

\* PostgreSQL runs the UPDATE ... WHERE id = $n RETURNING *; a blank id is no uuid
DbUpdateIndex(r) ==
    /\ req[r].pc = "query"
    /\ IF req[r].id = BlankId \/ BindError(req[r].params)
       THEN /\ req' = [req EXCEPT ![r].pc = "result", ![r].err = TRUE]
            /\ UNCHANGED characters
       ELSE IF req[r].id \in DOMAIN characters
       THEN LET row == SqlUpdateIndex(characters[req[r].id], req[r].params)
            IN /\ characters' = [characters EXCEPT ![req[r].id] = row]
               /\ req' = [req EXCEPT ![r].pc = "result", ![r].rows = <<row>>]
       ELSE /\ req' = [req EXCEPT ![r].pc = "result"]
            /\ UNCHANGED characters
    /\ UNCHANGED <<nextId, sync, mergeIn, mergeOut, images, reads, rowsIn, rowsOut>>

\* the callback of pool.query
QueryCallbackIndex(r) ==
    /\ req[r].pc = "result"
    /\ req' = [req EXCEPT ![r].pc = "done", ![r].response =
          IF req[r].err
          THEN Response(500, "Failed to update character", <<>>, <<>>, <<>>)
          ELSE IF Len(req[r].rows) = 0
          THEN Response(404, "Character not found", <<>>, <<>>, <<>>)
          ELSE Response(200, "", <<>>, <<>>, <<req[r].rows[1]>>)]
    /\ UNCHANGED <<characters, nextId, sync, mergeIn, mergeOut, images, reads, rowsIn, rowsOut>>

---------------------------------------------------------------------------
(* RosterSynchronizer: POST /scrape-characters *)

\* what scrapeOnePieceCharacters pushes for a row of the listing page
Entry(first_name, image_path) ==
    [first_name |-> first_name, last_name |-> "", title |-> "",
     image_path |-> image_path, elo |-> 1000, rank |-> 1000,
     recent_change |-> 0, wins |-> 0, losses |-> 0]

\* the listing page, as parsed; it names at most MaxFetch + 1 characters and a
\* fetch sees a prefix of it, of length 0..MaxFetch
Listing ==
    [i \in 1..(MaxFetch + 1) |->
        IF i % 2 = 1 THEN Entry("Nami", NoImage) ELSE Entry("Luffy", "luffy.png")]

FetchResults == {SubSeq(Listing, 1, n) : n \in 0..MaxFetch}

IdleSync ==
    [pc |-> "idle", characters |-> <<>>, k |-> 0, error |-> "", status |-> 0,
     result |-> <<>>]

\* the row an INSERT of entry c stores under the generated id
Inserted(id, c) ==
    [id |-> id, first_name |-> c.first_name, last_name |-> c.last_name,
     title |-> c.title, image_path |-> c.image_path, elo |-> c.elo,
     recent_change |-> c.recent_change, wins |-> c.wins, losses |-> c.losses]

\* the catch blocks rethrow up to the handler, which answers 500
Thrown(s, error) ==
    [sync[s] EXCEPT !.pc = "done", !.error = error, !.status = 500]

\* populateCharacters returned: the handler answers 200
Returned(s, result) ==
    [sync[s] EXCEPT !.pc = "done", !.status = 200, !.result = result]

\* the handler calls populateCharacters, which sends CREATE TABLE IF NOT EXISTS
scrapeCharacters(s) ==
    /\ sync[s].pc = "idle"
    /\ \A q \in SyncSlots : q < s => sync[q].pc # "idle"
    /\ sync' = [sync EXCEPT ![s].pc = "create"]
    /\ UNCHANGED <<characters, nextId, req, mergeIn, mergeOut, images, reads, rowsIn, rowsOut>>

\* the table exists: nothing changes; scrapeAndSaveCharacters sends the page request
createCharactersTable(s) ==
    /\ sync[s].pc = "create"
    /\ sync' = [sync EXCEPT ![s].pc = "fetch"]
    /\ UNCHANGED <<characters, nextId, req, mergeIn, mergeOut, images, reads, rowsIn, rowsOut>>

createCharactersTableFails(s) ==
    /\ sync[s].pc = "create"
    /\ sync' = [sync EXCEPT ![s] = Thrown(s, "storage")]
    /\ UNCHANGED <<characters, nextId, req, mergeIn, mergeOut, images, reads, rowsIn, rowsOut>>

\* scrapeOnePieceCharacters resolved with fetched; scrapeAndSaveCharacters goes on
\* to its first await
AfterFetch_noguard(s, fetched) ==
    [sync[s] EXCEPT !.pc = "delete", !.characters = fetched]

AfterFetch(s, fetched) ==
    IF Len(fetched) = 0
    THEN Returned(s, fetched)
    ELSE [sync[s] EXCEPT !.pc = "delete", !.characters = fetched]

scrapeOnePieceCharacters(s, fetched) ==
    /\ sync[s].pc = "fetch"
    /\ sync' = [sync EXCEPT ![s] = AfterFetch(s, fetched)]
    /\ UNCHANGED <<characters, nextId, req, mergeIn, mergeOut, images, reads, rowsIn, rowsOut>>

\* axios.get rejected or cheerio threw
FetchError_answered200(s) == [Thrown(s, "fetch") EXCEPT !.status = 200]

FetchError(s) == Thrown(s, "fetch")

scrapeOnePieceCharactersFails(s) ==
    /\ sync[s].pc = "fetch"
    /\ sync' = [sync EXCEPT ![s] = FetchError(s)]
    /\ UNCHANGED <<characters, nextId, req, mergeIn, mergeOut, images, reads, rowsIn, rowsOut>>

\* DELETE FROM characters
DeleteAll_none(table) == table

DeleteAll(table) == [i \in {} |-> table[i]]

DbDelete_transaction(s) ==
    LET n == Len(sync[s].characters)
    IN /\ sync[s].pc = "delete"
       /\ characters' =
             [i \in nextId..(nextId + n - 1) |->
                 Inserted(i, sync[s].characters[i - nextId + 1])]
       /\ nextId' = nextId + n
       /\ sync' = [sync EXCEPT ![s] = Returned(s, sync[s].characters)]
       /\ UNCHANGED <<req, mergeIn, mergeOut, images, reads, rowsIn, rowsOut>>

DbDelete(s) ==
    /\ sync[s].pc = "delete"
    /\ characters' = DeleteAll(characters)
    /\ sync' = [sync EXCEPT ![s] =
          IF Len(sync[s].characters) = 0
          THEN Returned(s, sync[s].characters)
          ELSE [sync[s] EXCEPT !.pc = "insert", !.k = 1]]
    /\ UNCHANGED <<nextId, req, mergeIn, mergeOut, images, reads, rowsIn, rowsOut>>

DbDeleteFails(s) ==
    /\ sync[s].pc = "delete"
    /\ sync' = [sync EXCEPT ![s] = Thrown(s, "storage")]
    /\ UNCHANGED <<characters, nextId, req, mergeIn, mergeOut, images, reads, rowsIn, rowsOut>>

DbInsert_serial(s) ==
    LET free == CHOOSE i \in 1..nextId :
                    /\ i \notin DOMAIN characters
                    /\ \A j \in 1..(i - 1) : j \in DOMAIN characters
    IN /\ sync[s].pc = "insert"
       /\ characters' =
             [i \in DOMAIN characters \cup {free} |->
                 IF i = free THEN Inserted(free, sync[s].characters[sync[s].k])
                 ELSE characters[i]]
       /\ nextId' = nextId + 1
       /\ sync' = [sync EXCEPT ![s] =
             IF sync[s].k = Len(sync[s].characters)
             THEN Returned(s, sync[s].characters)
             ELSE [sync[s] EXCEPT !.k = @ + 1]]
       /\ UNCHANGED <<req, mergeIn, mergeOut, images, reads, rowsIn, rowsOut>>

\* INSERT INTO characters (...) VALUES (...) for entry k; the id is generated
DbInsert(s) ==
    /\ sync[s].pc = "insert"
    /\ characters' =
          [i \in DOMAIN characters \cup {nextId} |->
              IF i = nextId THEN Inserted(nextId, sync[s].characters[sync[s].k])
              ELSE characters[i]]
    /\ nextId' = nextId + 1
    /\ sync' = [sync EXCEPT ![s] =
          IF sync[s].k = Len(sync[s].characters)
          THEN Returned(s, sync[s].characters)
          ELSE [sync[s] EXCEPT !.k = @ + 1]]
    /\ UNCHANGED <<req, mergeIn, mergeOut, images, reads, rowsIn, rowsOut>>

DbInsertFails_rolledBack(s) ==
    /\ sync[s].pc = "insert"
    /\ characters' = DeleteAll(characters)
    /\ sync' = [sync EXCEPT ![s] = Thrown(s, "storage")]
    /\ UNCHANGED <<nextId, req, mergeIn, mergeOut, images, reads, rowsIn, rowsOut>>

DbInsertFails(s) ==
    /\ sync[s].pc = "insert"
    /\ sync' = [sync EXCEPT ![s] = Thrown(s, "storage")]
    /\ UNCHANGED <<characters, nextId, req, mergeIn, mergeOut, images, reads, rowsIn, rowsOut>>

---------------------------------------------------------------------------
(* ImageBackfiller: POST /update-character-images *)

ImageSlots == 1..MaxImages

\* request.query.delay: absent, or the text after delay=
QueryDelays ==
    {JsUndefined, JsString("0"), JsString("5"), JsString("-5"), JsString("abc")}

\* parseInt(v) of a text that is a decimal integer or holds no leading digits
parseInt(v) ==
    IF IsDecimal(JsToString(v)) THEN JsNumber(DecimalValue(JsToString(v)))
    ELSE JsNaN

\* whether v counts as true in a || b and in if (v)
JsTruthy(v) ==
    CASE v.t = "number" -> v.n # 0
      [] v.t = "string" -> v.s # ""
      [] v.t = "boolean" -> v.n = 1
      [] OTHER -> FALSE

\* a || b
JsOr(a, b) == IF JsTruthy(a) THEN a ELSE b

\* delay > 0
JsGtZero(v) == ~ToNumber(v).nan /\ ToNumber(v).n > 0

\* const delay = parseInt(request.query.delay) || 1000
RouteDelay(q) == JsOr(parseInt(q), JsNumber(1000))

\* the default of the parameter delay
DefaultDelay == 1000

\* updateCharacterImagesFromPages(pool, delay = 1000) hands its delay on to
\* updateCharacterImages(pool, delay = 1000)
updateCharacterImagesFromPages(delay) ==
    IF delay.t = "undefined" THEN JsNumber(DefaultDelay) ELSE delay

\* the first names of the model in the order of ORDER BY first_name
Names == <<"Luffy", "Nami", "Zoro">>

NameRank(first_name) == CHOOSE k \in 1..Len(Names) : Names[k] = first_name

\* SELECT id, first_name, image_path FROM characters ORDER BY first_name:
\* the orders the rows can come in (rows of one first_name come in any order)
OrderByFirstName(table) ==
    {order \in [1..Cardinality(DOMAIN table) -> DOMAIN table] :
        /\ \A j, k \in DOMAIN order : j # k => order[j] # order[k]
        /\ \A j, k \in DOMAIN order :
              j < k => NameRank(table[order[j]].first_name)
                          <= NameRank(table[order[k]].first_name)}

Selected(table, order) ==
    [k \in DOMAIN order |->
        [id |-> order[k], first_name |-> table[order[k]].first_name,
         image_path |-> table[order[k]].image_path]]

\* what axios.get and cheerio make of the wiki page of a character: the
\* request or the parsing throws, or the page has no img.pi-image-thumbnail, or
\* it has one, with a src, with only a data-src, or with neither
Pages(characterName) ==
    {[error |-> TRUE, thumbnail |-> FALSE, src |-> JsUndefined, dataSrc |-> JsUndefined],
     [error |-> FALSE, thumbnail |-> FALSE, src |-> JsUndefined, dataSrc |-> JsUndefined],
     [error |-> FALSE, thumbnail |-> TRUE, src |-> JsString(characterName \o ".png"),
      dataSrc |-> JsUndefined],
     [error |-> FALSE, thumbnail |-> TRUE, src |-> JsUndefined,
      dataSrc |-> JsString(characterName \o ".webp")],
     [error |-> FALSE, thumbnail |-> TRUE, src |-> JsUndefined, dataSrc |-> JsUndefined]}

\* the line scrapeCharacterImage writes to the console
ScrapeLine(page) ==
    IF page.error THEN "Error scraping image"
    ELSE IF page.thumbnail /\ JsTruthy(JsOr(page.src, page.dataSrc))
         THEN "Found image"
         ELSE "No image found"

\* the image URL or null
scrapeCharacterImage(page) ==
    IF page.error THEN JsNull
    ELSE IF page.thumbnail /\ JsTruthy(JsOr(page.src, page.dataSrc))
         THEN JsOr(page.src, page.dataSrc)
         ELSE JsNull

NoSummary == [total |-> -1, updated |-> -1, skipped |-> -1, failed |-> -1]

IdleImages ==
    [pc |-> "idle", query |-> JsUndefined, delay |-> JsUndefined,
     characters |-> <<>>, i |-> 0, page |-> "", imageUrl |-> JsNull,
     updated |-> 0, skipped |-> 0, failed |-> 0, waits |-> 0, log |-> <<>>,
     status |-> 0, summary |-> NoSummary]

\* after the loop: the summary is returned and the handler answers 200
Summarised(b) ==
    [b EXCEPT !.pc = "done", !.status = 200,
              !.summary = [total |-> Len(b.characters), updated |-> b.updated,
                           skipped |-> b.skipped, failed |-> b.failed]]

\* the head of the loop body: the wait, when there is one, then the page request
Iteration(b) ==
    IF b.i > Len(b.characters) THEN Summarised(b)
    ELSE IF JsGtZero(b.delay) THEN [b EXCEPT !.pc = "wait"]
         ELSE [b EXCEPT !.pc = "fetch"]

\* the console line of the classification, and the next character
Classified(b, line) ==
    Iteration([b EXCEPT !.i = @ + 1,
                        !.log = Append(@, [id |-> b.characters[b.i].id,
                                           scrape |-> b.page,
                                           line |-> line])])

\* the handler reads the delay and calls updateCharacterImagesFromPages, which
\* sends the SELECT
updateCharacterImages(m, q) ==
    /\ images[m].pc = "idle"
    /\ \A n \in ImageSlots : n < m => images[n].pc # "idle"
    /\ images' = [images EXCEPT ![m].pc = "select", ![m].query = q,
                    ![m].delay = updateCharacterImagesFromPages(RouteDelay(q))]
    /\ UNCHANGED <<characters, nextId, req, sync, mergeIn, mergeOut, reads, rowsIn, rowsOut>>

\* the pool answers the SELECT; the loop starts
DbSelect(m) ==
    /\ images[m].pc = "select"
    /\ \E order \in OrderByFirstName(characters) :
          images' = [images EXCEPT ![m] =
              Iteration([images[m] EXCEPT !.characters = Selected(characters, order),
                                          !.i = 1])]
    /\ UNCHANGED <<characters, nextId, req, sync, mergeIn, mergeOut, reads, rowsIn, rowsOut>>

\* the pool fails the SELECT: the outer catch rethrows, the handler answers 500
DbSelectFails(m) ==
    /\ images[m].pc = "select"
    /\ images' = [images EXCEPT ![m].pc = "done", ![m].status = 500]
    /\ UNCHANGED <<characters, nextId, req, sync, mergeIn, mergeOut, reads, rowsIn, rowsOut>>

\* setTimeout(resolve, delay) fires; scrapeCharacterImage sends the page request
Timeout(m) ==
    /\ images[m].pc = "wait"
    /\ images' = [images EXCEPT ![m].pc = "fetch", ![m].waits = @ + 1]
    /\ UNCHANGED <<characters, nextId, req, sync, mergeIn, mergeOut, reads, rowsIn, rowsOut>>

AfterScrape_unawaited(b) ==
    IF JsTruthy(b.imageUrl)
    THEN Classified([b EXCEPT !.updated = @ + 1], "Updated image")
    ELSE Classified([b EXCEPT !.skipped = @ + 1], "Skipped")

AfterScrape_always(b) == [b EXCEPT !.pc = "update"]

\* what follows the return of scrapeCharacterImage: the UPDATE is sent when
\* there is an image URL, the character is skipped when there is none
AfterScrape(b) ==
    IF JsTruthy(b.imageUrl) THEN [b EXCEPT !.pc = "update"]
    ELSE Classified([b EXCEPT !.skipped = @ + 1], "Skipped")

\* the page request ends, one way or another
AxiosGet(m) ==
    /\ images[m].pc = "fetch"
    /\ \E page \in Pages(images[m].characters[images[m].i].first_name) :
          images' = [images EXCEPT ![m] =
              AfterScrape([images[m] EXCEPT !.page = ScrapeLine(page),
                                            !.imageUrl = scrapeCharacterImage(page)])]
    /\ UNCHANGED <<characters, nextId, req, sync, mergeIn, mergeOut, reads, rowsIn, rowsOut>>

SqlSetImage_upsert(table, imageUrl, id) ==
    [j \in DOMAIN table \cup {id} |->
        IF j = id THEN Row(id, "", imageUrl, 1000, 0, 0, 0) ELSE table[j]]

\* UPDATE characters SET image_path = $1 WHERE id = $2
SqlSetImage(table, imageUrl, id) ==
    [j \in DOMAIN table |->
        IF j = id THEN [table[j] EXCEPT !.image_path = imageUrl] ELSE table[j]]

DbSetImage_rowGoneAborts(m) ==
    /\ images[m].pc = "update"
    /\ characters' = SqlSetImage(characters, images[m].imageUrl.s,
                                 images[m].characters[images[m].i].id)
    /\ images' = [images EXCEPT ![m] =
          IF images[m].characters[images[m].i].id \in DOMAIN characters
          THEN Classified([images[m] EXCEPT !.updated = @ + 1], "Updated image")
          ELSE [images[m] EXCEPT !.pc = "done", !.status = 500]]
    /\ UNCHANGED <<nextId, req, sync, mergeIn, mergeOut, reads, rowsIn, rowsOut>>

\* the pool answers the UPDATE, whatever the number of rows it changed
DbSetImage(m) ==
    /\ images[m].pc = "update"
    /\ characters' = SqlSetImage(characters, images[m].imageUrl.s,
                                 images[m].characters[images[m].i].id)
    /\ images' = [images EXCEPT ![m] =
                    Classified([images[m] EXCEPT !.updated = @ + 1], "Updated image")]
    /\ UNCHANGED <<nextId, req, sync, mergeIn, mergeOut, reads, rowsIn, rowsOut>>

CaughtInLoop_uncounted(b) == Classified(b, "Failed to update")

CaughtInLoop_rethrown(b) == [b EXCEPT !.pc = "done", !.status = 500]

\* what the catch inside the loop does with an error
CaughtInLoop(b) == Classified([b EXCEPT !.failed = @ + 1], "Failed to update")

\* the pool fails the UPDATE (connection lost, a URL longer than VARCHAR(128))
DbSetImageFails(m) ==
    /\ images[m].pc = "update"
    /\ images' = [images EXCEPT ![m] = CaughtInLoop(images[m])]
    /\ UNCHANGED <<characters, nextId, req, sync, mergeIn, mergeOut, reads, rowsIn, rowsOut>>

---------------------------------------------------------------------------
(* GET /characters *)

ReadSlots == 1..MaxReads

IdleRead == [pc |-> "idle", status |-> 0, rows |-> <<>>]

\* SELECT * FROM characters ORDER BY elo DESC, first_name ASC: the orders the
\* rows can come in (rows equal in both come in any order)
OrderByElo(table) ==
    {order \in [1..Cardinality(DOMAIN table) -> DOMAIN table] :
        /\ \A j, k \in DOMAIN order : j # k => order[j] # order[k]
        /\ \A j, k \in DOMAIN order :
              j < k => \/ table[order[j]].elo > table[order[k]].elo
                       \/ /\ table[order[j]].elo = table[order[k]].elo
                          /\ NameRank(table[order[j]].first_name)
                                <= NameRank(table[order[k]].first_name)}

\* the handler sends the SELECT
getCharacters(g) ==
    /\ reads[g].pc = "idle"
    /\ \A h \in ReadSlots : h < g => reads[h].pc # "idle"
    /\ reads' = [reads EXCEPT ![g].pc = "query"]
    /\ UNCHANGED <<characters, nextId, req, sync, mergeIn, mergeOut, images, rowsIn, rowsOut>>

\* the pool answers the SELECT; the callback answers 200 with the rows
DbSelectAll(g) ==
    /\ reads[g].pc = "query"
    /\ \E order \in OrderByElo(characters) :
          reads' = [reads EXCEPT ![g] =
              [pc |-> "done", status |-> 200,
               rows |-> [k \in DOMAIN order |-> characters[order[k]]]]]
    /\ UNCHANGED <<characters, nextId, req, sync, mergeIn, mergeOut, images, rowsIn, rowsOut>>

\* the pool fails the SELECT; the callback answers 500
DbSelectAllFails(g) ==
    /\ reads[g].pc = "query"
    /\ reads' = [reads EXCEPT ![g] = [pc |-> "done", status |-> 500, rows |-> <<>>]]
    /\ UNCHANGED <<characters, nextId, req, sync, mergeIn, mergeOut, images, rowsIn, rowsOut>>

---------------------------------------------------------------------------
(* RosterScraper: the rows of the listing page *)

\* a text is a sequence of characters; String(text) is Join(text)
RECURSIVE Join(_)
Join(text) == IF text = <<>> THEN "" ELSE Head(text) \o Join(Tail(text))

RECURSIVE TrimStart(_)
TrimStart(text) ==
    IF text = <<>> THEN <<>>
    ELSE IF Head(text) = " " THEN TrimStart(Tail(text)) ELSE text

RECURSIVE TrimEnd(_)
TrimEnd(text) ==
    IF text = <<>> THEN <<>>
    ELSE IF text[Len(text)] = " " THEN TrimEnd(SubSeq(text, 1, Len(text) - 1))
         ELSE text

\* text.trim()
Trim(text) == TrimEnd(TrimStart(text))

\* text.replace(/\s+/g, ' ')
RECURSIVE CollapseSpaces(_)
CollapseSpaces(text) ==
    IF text = <<>> THEN <<>>
    ELSE IF Head(text) = " " THEN <<" ">> \o CollapseSpaces(TrimStart(text))
         ELSE <<Head(text)>> \o CollapseSpaces(Tail(text))

\* a td cell is the sequence of the texts of the links in it;
\* nameCell.find('a').first().text() is '' when there is none
LinkText(cell) == IF cell = <<>> THEN <<>> ELSE cell[1]

characterName(cell) == Trim(LinkText(cell))

cleanName(cell) == Trim(CollapseSpaces(characterName(cell)))

\* characterName && characterName !== 'Name' && characterName.length > 1, then
\* cleanName && cleanName.length > 1
CellQualifies(cell) ==
    /\ characterName(cell) # <<>>
    /\ characterName(cell) # <<"N", "a", "m", "e">>
    /\ Len(characterName(cell)) > 1
    /\ cleanName(cell) # <<>>
    /\ Len(cleanName(cell)) > 1

\* the td cells of a tr and the source of its first img (NoImage without one)
TableRow(cells, img) == [cells |-> cells, img |-> img]

\* for (let i = 0; i < Math.min($cells.length, 5); i++) { ... break; }
RECURSIVE ScanCells(_, _)
ScanCells(row, i) ==
    IF i > Len(row.cells) \/ i > 5 THEN <<>>
    ELSE IF CellQualifies(row.cells[i])
         THEN <<Entry(Join(cleanName(row.cells[i])), row.img)>>
         ELSE ScanCells(row, i + 1)

RowEntry_anyCells(row) == ScanCells(row, 1)

\* what one tr adds to characters
RowEntry(row) == IF Len(row.cells) >= 2 THEN ScanCells(row, 1) ELSE <<>>

\* $('table tr').each(...)
RECURSIVE EachRow(_)
EachRow(rows) == IF rows = <<>> THEN <<>> ELSE RowEntry(Head(rows)) \o EachRow(Tail(rows))

NoLink == <<>>
Link(text) == <<text>>
Nami == <<"N", "a", "m", "i">>
Zoro == <<"Z", "o", "r", "o">>

\* the rows the model builds listing pages from
RowSamples ==
    {TableRow(<<>>, NoImage),
     TableRow(<<Link(<<"N", "a", "m", "e">>), Link(<<"N", "a", "m", "e">>)>>, NoImage),
     TableRow(<<Link(Nami)>>, "nami.png"),
     TableRow(<<Link(Nami), NoLink>>, "nami.png"),
     TableRow(<<NoLink, Link(Nami)>>, NoImage),
     TableRow(<<Link(Nami), Link(Zoro)>>, NoImage),
     TableRow(<<Link(<<"N">>), Link(<<" ", "Z", "o", "r", "o", " ">>)>>, "zoro.png"),
     TableRow(<<Link(<<" ">>), Link(<<"N", "i", "c", "o", " ", " ", "R">>)>>, NoImage),
     TableRow(<<Link(<<"N", "a", "m", "e">>), Link(Zoro)>>, NoImage),
     TableRow(<<NoLink, NoLink, NoLink, NoLink, Link(Zoro), Link(Nami)>>, NoImage),
     TableRow(<<NoLink, NoLink, NoLink, NoLink, NoLink, Link(Nami)>>, NoImage)}

RECURSIVE PagesOfRows(_)
PagesOfRows(n) ==
    IF n = 0 THEN {<<>>}
    ELSE PagesOfRows(n - 1) \cup {Append(p, r) : p \in PagesOfRows(n - 1), r \in RowSamples}

ListingPages == PagesOfRows(MaxRows)

NotCalled == [called |-> FALSE, characters |-> <<>>]

\* scrapeOnePieceCharacters on a page that was fetched and parsed
CallScrapeOnePieceCharacters ==
    /\ ~rowsOut.called
    /\ rowsOut' = [called |-> TRUE, characters |-> EachRow(rowsIn)]
    /\ UNCHANGED <<characters, nextId, req, sync, mergeIn, mergeOut, images, reads, rowsIn>>

---------------------------------------------------------------------------
(* Specifications *)

Init ==
    /\ characters = InitCharacters
    /\ nextId = 3
    /\ req = [r \in ReqSlots |-> IdleReq]
    /\ sync = [s \in SyncSlots |-> IdleSync]
    /\ mergeIn = <<0, 0>>
    /\ mergeOut = JsUndefined
    /\ images = [m \in ImageSlots |-> IdleImages]
    /\ reads = [g \in ReadSlots |-> IdleRead]
    /\ rowsIn = <<>>
    /\ rowsOut = NotCalled

LedgerStep(BodySet) ==
    \E r \in ReqSlots :
        \/ \E id \in Ids, body \in BodySet : updateCharacterElo(r, id, body)
        \/ DbUpdate(r)
        \/ DbUpdateFails(r)
        \/ QueryCallback(r)

SyncWork(s) ==
    \/ createCharactersTable(s)
    \/ createCharactersTableFails(s)
    \/ \E fetched \in FetchResults : scrapeOnePieceCharacters(s, fetched)
    \/ scrapeOnePieceCharactersFails(s)
    \/ DbDelete(s)
    \/ DbDeleteFails(s)
    \/ DbInsert(s)
    \/ DbInsertFails(s)

SyncStep == \E s \in SyncSlots : scrapeCharacters(s) \/ SyncWork(s)

\* the whole server: rating updates and synchronisations interleave
Next == LedgerStep(NumericBodies) \/ SyncStep

Spec == Init /\ [][Next]_vars

\* the rating ledger alone, under concurrent well-formed requests
NextLedger == LedgerStep(NumericBodies)

SpecLedger == Init /\ [][NextLedger]_vars

\* the validation of one request, over well-formed and malformed bodies
NextValidate ==
    \/ \E id \in Ids, body \in Bodies : updateCharacterElo(1, id, body)
    \/ DbUpdate(1)
    \/ DbUpdateFails(1)
    \/ QueryCallback(1)

SpecValidate == Init /\ [][NextValidate]_vars

\* synchronisations alone, interleaved with each other
SpecSync == Init /\ [][SyncStep]_vars

\* the server of index.js: its rating updates, concurrent
NextIndex ==
    \E r \in ReqSlots :
        \/ \E id \in Ids, body \in BodiesIndex : updateCharacterEloIndex(r, id, body)
        \/ DbUpdateIndex(r)
        \/ DbUpdateFails(r)
        \/ QueryCallbackIndex(r)

SpecIndex == Init /\ [][NextIndex]_vars

\* one synchronisation at a time and no other writer
NoSyncRunning == \A s \in SyncSlots : sync[s].pc \in {"idle", "done"}

NextSolo ==
    \E s \in SyncSlots :
        \/ NoSyncRunning /\ scrapeCharacters(s)
        \/ SyncWork(s)

SpecSolo == Init /\ [][NextSolo]_vars

\* calculateChange called directly
MergeInit ==
    /\ mergeIn \in MergeRange \X MergeRange
    /\ mergeOut = JsUndefined
    /\ characters = InitCharacters
    /\ nextId = 3
    /\ req = [r \in ReqSlots |-> IdleReq]
    /\ sync = [s \in SyncSlots |-> IdleSync]
    /\ images = [m \in ImageSlots |-> IdleImages]
    /\ reads = [g \in ReadSlots |-> IdleRead]
    /\ rowsIn = <<>>
    /\ rowsOut = NotCalled

SpecMerge == MergeInit /\ [][CallCalculateChange]_vars

\* scrapeOnePieceCharacters called directly
RowsInit ==
    /\ rowsIn \in ListingPages
    /\ rowsOut = NotCalled
    /\ characters = InitCharacters
    /\ nextId = 3
    /\ req = [r \in ReqSlots |-> IdleReq]
    /\ sync = [s \in SyncSlots |-> IdleSync]
    /\ mergeIn = <<0, 0>>
    /\ mergeOut = JsUndefined
    /\ images = [m \in ImageSlots |-> IdleImages]
    /\ reads = [g \in ReadSlots |-> IdleRead]

SpecRows == RowsInit /\ [][CallScrapeOnePieceCharacters]_vars

ImagesWork(m) ==
    \/ DbSelect(m)
    \/ DbSelectFails(m)
    \/ Timeout(m)
    \/ AxiosGet(m)
    \/ DbSetImage(m)
    \/ DbSetImageFails(m)

ImagesStep ==
    \E m \in ImageSlots :
        \/ \E q \in QueryDelays : updateCharacterImages(m, q)
        \/ ImagesWork(m)

\* image batches alone
SpecImages == Init /\ [][ImagesStep]_vars

\* one image batch beside one synchronisation
NextImagesSync ==
    \/ \E q \in QueryDelays : updateCharacterImages(1, q)
    \/ ImagesWork(1)
    \/ scrapeCharacters(1)
    \/ SyncWork(1)

SpecImagesSync == Init /\ [][NextImagesSync]_vars

\* the same, with every timer firing and every page request and query of the
\* batch ending, one way or the other
SpecImagesFair == Init /\ [][NextImagesSync]_vars /\ WF_vars(ImagesWork(1))

\* the three writers of the table side by side: one rating update, one
\* synchronisation, one image batch
NextWriters ==
    \/ \E id \in Ids, body \in NumericBodies : updateCharacterElo(1, id, body)
    \/ DbUpdate(1)
    \/ DbUpdateFails(1)
    \/ QueryCallback(1)
    \/ scrapeCharacters(1)
    \/ SyncWork(1)
    \/ \E q \in QueryDelays : updateCharacterImages(1, q)
    \/ ImagesWork(1)

SpecWriters == Init /\ [][NextWriters]_vars

ReadStep ==
    \E g \in ReadSlots : getCharacters(g) \/ DbSelectAll(g) \/ DbSelectAllFails(g)

\* readers beside one synchronisation
NextReadSync == ReadStep \/ scrapeCharacters(1) \/ SyncWork(1)

SpecReadSync == Init /\ [][NextReadSync]_vars

---------------------------------------------------------------------------
(* Properties *)

\* the requests whose UPDATE has been applied to the row id
Applied(id) ==
    {r \in ReqSlots : /\ req[r].pc \in {"result", "done"}
                      /\ req[r].id = id
                      /\ ~req[r].err
                      /\ Len(req[r].rows) > 0}

RECURSIVE SumOf(_, _)
SumOf(S, f) ==
    IF S = {} THEN 0
    ELSE LET r == CHOOSE x \in S : TRUE
         IN req[r].body[f].n + SumOf(S \ {r}, f)

\* the values a row had before any request of the behaviour
Prior(id) ==
    IF id \in DOMAIN InitCharacters THEN InitCharacters[id]
    ELSE Row(id, "", NoImage, 1000, 0, 0, 0)

\* C1: under every interleaving of concurrent rating updates of one row, wins,
\* losses and rating of the row are the prior values plus the sums of the deltas
\* of all the updates applied to it; no update is lost.
C1_NoLostUpdate ==
    \A id \in DOMAIN characters :
        /\ characters[id].wins = Prior(id).wins + SumOf(Applied(id), "wins_change")
        /\ characters[id].losses = Prior(id).losses + SumOf(Applied(id), "losses_change")
        /\ characters[id].elo = Prior(id).elo + SumOf(Applied(id), "elo_change")

\* every request of the behaviour added a win to row 1 and was answered 200
C1_Witness ==
    /\ \A r \in ReqSlots : /\ req[r].pc = "done"
                           /\ req[r].id = 1
                           /\ req[r].response.status = 200
                           /\ req[r].body["wins_change"] = JsNumber(1)
    /\ characters[1].wins = InitCharacters[1].wins + MaxReq

\* C2: an update that succeeds changes the row by the deltas supplied, never by
\* overwriting: wins, losses and rating grow by the deltas, recent_change becomes
\* Merge(ratingDelta, rawRecentChange), and the row returned is the stored row.
C2_RelativeDeltasOnly ==
    [][\A r \in ReqSlots :
          ( /\ req[r].pc = "query"
            /\ req'[r].pc = "result"
            /\ Len(req'[r].rows) > 0
            /\ \A f \in DOMAIN req[r].params : req[r].params[f].t = "number" )
          => LET old == characters[req[r].id]
                 new == characters'[req[r].id]
                 raw == req[r].body["recent_change"]
             IN /\ new.wins = old.wins + req[r].params.wins.n
                /\ new.losses = old.losses + req[r].params.losses.n
                /\ new.elo = old.elo + req[r].params.elo.n
                /\ new.recent_change = calculateChange(req[r].params.elo, raw).n
                /\ req'[r].rows = <<new>>]_vars

\* C3: Merge(ratingDelta, priorTrend) is the sum when both are >= 0 or both are
\* <= 0, and ratingDelta alone otherwise; the six values of the specification.
C3_MergeRule ==
    mergeOut # JsUndefined =>
        LET ratingDelta == mergeIn[1]
            priorTrend == mergeIn[2]
            compatible == \/ ratingDelta * priorTrend > 0
                          \/ ratingDelta = 0
                          \/ priorTrend = 0
        IN /\ mergeOut.t = "number"
           /\ compatible => mergeOut.n = ratingDelta + priorTrend
           /\ ~compatible => mergeOut.n = ratingDelta
           /\ mergeIn = <<5, 3>> => mergeOut.n = 8
           /\ mergeIn = <<-5, -3>> => mergeOut.n = -8
           /\ mergeIn = <<5, -3>> => mergeOut.n = 5
           /\ mergeIn = <<-5, 3>> => mergeOut.n = -5
           /\ mergeIn = <<0, 7>> => mergeOut.n = 7
           /\ mergeIn = <<-5, 0>> => mergeOut.n = -5

C3_Witness == mergeIn = <<0, 7>> /\ mergeOut = JsNumber(7)

\* the fields of the four that a body omits
Omitted(body) == Fields \ DOMAIN body

PresentAndNumeric(body) ==
    \A f \in Fields : f \in DOMAIN body /\ ~ToNumber(body[f]).nan

C6_NonNumberRejected ==
    \A r \in ReqSlots :
        (req[r].pc # "idle"
         /\ \E f \in Fields \cap DOMAIN req[r].body : req[r].body[f].t # "number")
        => /\ req[r].pc = "done"
           /\ req[r].response.status = 400

\* C7: a well-formed request whose id matches no stored row is answered 404, and
\* its UPDATE leaves every stored row as it was.  (The id is one that reaches the
\* query, and the query is answered.)
C7_NotFound ==
    [][\A r \in ReqSlots :
          /\ ( /\ req[r].pc = "query"
               /\ req'[r].pc = "result"
               /\ req[r].id \notin DOMAIN characters )
             => /\ characters' = characters
                /\ ~req'[r].err => req'[r].rows = <<>>
          /\ ( /\ req[r].pc = "result"
               /\ req'[r].pc = "done"
               /\ ~req[r].err
               /\ req[r].rows = <<>> )
             => /\ req'[r].response.status = 404
                /\ characters' = characters]_vars

C7_Witness ==
    \E r \in ReqSlots :
        /\ req[r].pc = "done"
        /\ req[r].id = UnknownId
        /\ req[r].body \in NumericBodies
        /\ req[r].response.status = 404

\* C8: when the scraper yields no entry, the synchronisation deletes and inserts
\* nothing: every step of it leaves the stored rows as they are, and it returns
\* the empty result.
C8_EmptyFetchKeepsRoster ==
    [][\A s \in SyncSlots :
          (sync'[s] # sync[s] /\ sync'[s].characters = <<>>)
          => /\ characters' = characters
             /\ (sync[s].pc = "fetch" /\ sync'[s].error = "")
                => /\ sync'[s].pc = "done"
                   /\ sync'[s].status = 200
                   /\ sync'[s].result = <<>>]_vars

C8_Witness ==
    \E s \in SyncSlots :
        /\ sync[s].pc = "done"
        /\ sync[s].error = ""
        /\ sync[s].characters = <<>>
        /\ sync[s].result = <<>>
        /\ characters = InitCharacters

\* C9: a synchronisation that runs alone and fetched n > 0 entries leaves, when it
\* returns, exactly n rows: one per entry, in order, under the n ids generated
\* last (so none of the rows stored before the call), with rating 1000 and wins,
\* losses and recent_change 0.
C9_FullReplace ==
    [][\A s \in SyncSlots :
          ( /\ sync[s].pc # "done"
            /\ sync'[s].pc = "done"
            /\ sync'[s].status = 200
            /\ Len(sync'[s].characters) > 0 )
          => LET n == Len(sync'[s].characters)
                 first == nextId' - n
             IN /\ sync'[s].result = sync'[s].characters
                /\ DOMAIN characters' = first..(nextId' - 1)
                /\ \A i \in 1..n :
                      LET row == characters'[first + i - 1]
                          c == sync'[s].characters[i]
                      IN /\ row.first_name = c.first_name
                         /\ row.image_path = c.image_path
                         /\ row.elo = 1000
                         /\ row.wins = 0
                         /\ row.losses = 0
                         /\ row.recent_change = 0]_vars

C9_Witness ==
    \E s \in SyncSlots :
        /\ sync[s].pc = "done"
        /\ sync[s].status = 200
        /\ Len(sync[s].characters) = MaxFetch
        /\ DOMAIN characters = (nextId - MaxFetch)..(nextId - 1)
        /\ DOMAIN characters \cap DOMAIN InitCharacters = {}

\* C10: when the fetch fails, the synchronisation answers 500 and has changed no
\* stored row: no step of it up to and including the failure touches the table.
C10_FetchFailure ==
    [][\A s \in SyncSlots :
          /\ (sync'[s] # sync[s] /\ sync[s].pc \in {"idle", "create", "fetch"})
             => characters' = characters
          /\ (sync[s].error = "" /\ sync'[s].error = "fetch")
             => /\ sync[s].pc = "fetch"
                /\ sync'[s].pc = "done"
                /\ sync'[s].status = 500
                /\ sync'[s].result = <<>>]_vars

C10_Witness ==
    \E s \in SyncSlots :
        /\ sync[s].pc = "done"
        /\ sync[s].error = "fetch"
        /\ sync[s].status = 500
        /\ characters = InitCharacters

\* C11: in an image batch a character whose page request or parsing throws is
\* counted as failed (its console line is "Failed to update", neither skipped
\* nor updated), and no step that classifies it mutates the table.
C11_FetchErrorIsFailed ==
    [][\A m \in ImageSlots :
          (/\ Len(images'[m].log) = Len(images[m].log) + 1
           /\ images'[m].log[Len(images'[m].log)].scrape = "Error scraping image")
          => /\ images'[m].log[Len(images'[m].log)].line = "Failed to update"
             /\ images'[m].failed = images[m].failed + 1
             /\ images'[m].skipped = images[m].skipped
             /\ images'[m].updated = images[m].updated
             /\ characters' = characters]_vars

\* C12: every summary an image batch returns has total = updated + skipped +
\* failed, with total the number of rows the SELECT read and the three counts
\* those of the loop, whatever happened to each character.
C12_SummaryAddsUp ==
    \A m \in ImageSlots :
        images[m].summary # NoSummary
        => /\ images[m].summary.total
                = images[m].summary.updated + images[m].summary.skipped
                  + images[m].summary.failed
           /\ images[m].summary.total = Len(images[m].characters)
           /\ images[m].summary.updated = images[m].updated
           /\ images[m].summary.skipped = images[m].skipped
           /\ images[m].summary.failed = images[m].failed

C12_Witness ==
    \E m \in ImageSlots :
        /\ images[m].pc = "done"
        /\ images[m].summary = [total |-> 2, updated |-> 0, skipped |-> 1, failed |-> 1]
        /\ Len(images[m].log) = 2
        /\ images[m].log[1].scrape = "Error scraping image"
        /\ images[m].log[2].line = "Failed to update"

\* the lines of the log of batch b that read line
LinesOf(b, line) == {k \in DOMAIN b.log : b.log[k].line = line}

C14_NoThumbnailSkipped ==
    [][\A m \in ImageSlots :
          (/\ Len(images'[m].log) = Len(images[m].log) + 1
           /\ images'[m].log[Len(images'[m].log)].scrape = "No image found")
          => /\ images'[m].log[Len(images'[m].log)].line = "Skipped"
             /\ images[m].pc = "fetch"
             /\ images'[m].skipped = images[m].skipped + 1
             /\ images'[m].updated = images[m].updated
             /\ images'[m].failed = images[m].failed
             /\ characters' = characters]_vars

C14_Witness ==
    \E m \in ImageSlots :
        /\ images[m].pc = "done"
        /\ Len(images[m].log) = 2
        /\ images[m].log[2].scrape = "No image found"
        /\ images[m].log[2].line = "Skipped"
        /\ images[m].characters[2].image_path = characters[images[m].characters[2].id].image_path
        /\ characters[2] = InitCharacters[2]

\* C15: a character an image batch counts as updated has a stored row, and the
\* step that counts it has set the image_path of that row to the URL taken from
\* the page and changed nothing else, also beside a running synchronisation.
C15_UpdatedChangedARow ==
    [][\A m \in ImageSlots :
          (/\ Len(images'[m].log) = Len(images[m].log) + 1
           /\ images'[m].log[Len(images'[m].log)].line = "Updated image")
          => LET id == images[m].characters[images[m].i].id
             IN /\ id \in DOMAIN characters
                /\ id \in DOMAIN characters'
                /\ characters'
                     = [characters EXCEPT ![id].image_path = images[m].imageUrl.s]]_vars

\* C16: the delay of an image batch is 1000 when the request gives none and the
\* value the request gives otherwise, and a batch whose request gives the delay
\* 0 (POST /update-character-images?delay=0) never waits between characters.
C16_DelayOfTheCaller ==
    \A m \in ImageSlots :
        images[m].pc # "idle"
        => /\ images[m].query = JsUndefined => images[m].delay = JsNumber(DefaultDelay)
           /\ (images[m].query.t = "string" /\ IsDecimal(images[m].query.s))
              => images[m].delay = JsNumber(DecimalValue(images[m].query.s))
           /\ images[m].query = JsString("0")
              => /\ images[m].pc # "wait"
                 /\ images[m].waits = 0

\* C17: in every reachable state every stored row has wins >= 0 and
\* losses >= 0.
C17_CountsNonNegative ==
    \A id \in DOMAIN characters :
        /\ characters[id].wins >= 0
        /\ characters[id].losses >= 0

\* the steps in which the pool applies the UPDATE of request r to a stored row
UpdateApplied(r) ==
    /\ req[r].pc = "query"
    /\ req'[r].pc = "result"
    /\ Len(req'[r].rows) > 0

\* C18 as stated: after every successful update the stored recent_change is
\* Merge(ratingDelta, the recent_change stored immediately before the update).
C18_MergeWithStored ==
    [][\A r \in ReqSlots :
          UpdateApplied(r)
          => characters'[req[r].id].recent_change
                = calculateChange(req[r].body["elo_change"],
                                  JsNumber(characters[req[r].id].recent_change)).n]_vars

\* C18: after every successful update the stored recent_change is
\* Merge(ratingDelta, rawRecentChange), with rawRecentChange the recent_change
\* of the request, whatever recent_change was stored before; so the
\* recent_change of a row that has been updated is that of one of the updates
\* applied to it.
C18_MergeWithRequest ==
    [][/\ \A r \in ReqSlots :
             UpdateApplied(r)
             => characters'[req[r].id].recent_change
                   = calculateChange(req[r].body["elo_change"],
                                     req[r].body["recent_change"]).n
       /\ \A id \in DOMAIN characters' :
             Applied(id)' # {}
             => \E r \in Applied(id)' :
                   characters'[id].recent_change
                      = calculateChange(req'[r].body["elo_change"],
                                        req'[r].body["recent_change"]).n]_vars

C18_Witness ==
    \E r \in ReqSlots :
        /\ Applied(1) = {r}
        /\ req[r].body = Body(1, 0, 3, 2)
        /\ InitCharacters[1].recent_change = 10
        /\ characters[1].recent_change = 5

\* C19: the ids of the stored rows are pairwise distinct, and an id given to a
\* row by one synchronisation is never given again: every id that enters the
\* table is one that no row has had before (the ids drawn so far are those
\* below nextId).
C19_IdsUniqueAndFresh ==
    [][/\ \A i \in DOMAIN characters' : characters'[i].id = i
       /\ \A i, j \in DOMAIN characters' :
             i # j => characters'[i].id # characters'[j].id
       /\ \A i \in DOMAIN characters : i < nextId
       /\ \A i \in DOMAIN characters' : i < nextId'
       /\ \A i \in DOMAIN characters' \ DOMAIN characters : i >= nextId
       /\ nextId' >= nextId]_vars

C19_Witness ==
    \E s, t \in SyncSlots :
        /\ s # t
        /\ sync[s].pc = "done" /\ sync[s].status = 200
        /\ sync[t].pc = "done" /\ sync[t].status = 200
        /\ Len(sync[s].characters) > 0
        /\ Len(sync[t].characters) > 0
        /\ nextId = 3 + Len(sync[s].characters) + Len(sync[t].characters)
        /\ \A i \in DOMAIN characters : i \notin DOMAIN InitCharacters
        /\ characters # <<>>

\* C20: the set of the ids stored is changed by synchronisations only: a step of
\* a rating update neither adds nor removes a row and leaves id, first_name,
\* last_name, title and image_path of every row as they were; a step of an image
\* batch neither adds nor removes a row and leaves id, elo, recent_change, wins
\* and losses of every row as they were.
C20_OnlySyncChangesTheIds ==
    [][/\ DOMAIN characters' # DOMAIN characters => sync' # sync
       /\ req' # req
          => /\ DOMAIN characters' = DOMAIN characters
             /\ \A i \in DOMAIN characters :
                   /\ characters'[i].id = characters[i].id
                   /\ characters'[i].first_name = characters[i].first_name
                   /\ characters'[i].last_name = characters[i].last_name
                   /\ characters'[i].title = characters[i].title
                   /\ characters'[i].image_path = characters[i].image_path
       /\ images' # images
          => /\ DOMAIN characters' = DOMAIN characters
             /\ \A i \in DOMAIN characters :
                   /\ characters'[i].id = characters[i].id
                   /\ characters'[i].elo = characters[i].elo
                   /\ characters'[i].recent_change = characters[i].recent_change
                   /\ characters'[i].wins = characters[i].wins
                   /\ characters'[i].losses = characters[i].losses]_vars

C20_Witness ==
    /\ Applied(1) = {1}
    /\ images[1].pc = "done"
    /\ Len(images[1].log) = 2
    /\ images[1].log[1] = [id |-> 1, scrape |-> "Found image", line |-> "Updated image"]
    /\ DOMAIN characters = DOMAIN InitCharacters
    /\ characters[1].image_path = "Luffy.png"
    /\ characters[1].first_name = "Luffy"
    /\ characters[1].wins = InitCharacters[1].wins + req[1].body["wins_change"].n
    /\ characters[1].elo # InitCharacters[1].elo

\* C21: the DELETE and the INSERTs of a synchronisation are separate steps: the
\* DELETE of a synchronisation that fetched entries leaves the table empty with
\* the first INSERT still to come, and a GET /characters answers with the rows
\* stored at the moment its SELECT runs, so one that runs then answers with no
\* rows.
C21_EmptyBetweenDeleteAndInsert ==
    [][/\ \A s \in SyncSlots :
             (/\ sync[s].pc = "delete"
              /\ sync'[s] # sync[s]
              /\ sync'[s].error = ""
              /\ Len(sync[s].characters) > 0)
             => /\ DOMAIN characters' = {}
                /\ sync'[s].pc = "insert"
                /\ sync'[s].k = 1
       /\ \A g \in ReadSlots :
             (reads[g].pc = "query" /\ reads'[g].status = 200)
             => /\ Len(reads'[g].rows) = Cardinality(DOMAIN characters)
                /\ \A i \in DOMAIN characters :
                      \E k \in DOMAIN reads'[g].rows : reads'[g].rows[k] = characters[i]]_vars

C21_Witness ==
    \E g \in ReadSlots, s \in SyncSlots :
        /\ reads[g].pc = "done"
        /\ reads[g].status = 200
        /\ reads[g].rows = <<>>
        /\ sync[s].pc = "insert"
        /\ sync[s].k = 1
        /\ Len(sync[s].characters) > 0
        /\ DOMAIN InitCharacters # {}
        /\ \A t \in SyncSlots : t # s => sync[t].pc = "idle"

\* C22: an image batch is sequential. It goes on to character i + 1 only in the
\* step that ends the work on character i: the answer of the UPDATE, or the end
\* of the page request when that gave no image URL. The wait and the page
\* request of a character begin only when every character before it has its
\* line in the log, a page request is sent only after the wait (when the delay
\* is positive), and the one page request in flight is that of character i.
C22_OneAtATime ==
    [][\A m \in ImageSlots :
          LET b == images[m]
              c == images'[m]
          IN /\ (b.i >= 1 /\ c.i # b.i)
                => /\ c.i = b.i + 1
                   /\ Len(c.log) = b.i
                   /\ c.log[b.i].id = b.characters[b.i].id
                   /\ \/ b.pc = "update"
                      \/ b.pc = "fetch" /\ ~JsTruthy(c.imageUrl)
             /\ (c # b /\ c.pc \in {"wait", "fetch", "update"})
                => /\ Len(c.log) = c.i - 1
                   /\ c.i \in DOMAIN c.characters
             /\ (c # b /\ c.pc = "fetch" /\ JsGtZero(c.delay)) => b.pc = "wait"
             /\ (c # b /\ c.pc = "update")
                => /\ b.pc = "fetch"
                   /\ c.i = b.i
                   /\ JsTruthy(c.imageUrl)]_vars

C22_Witness ==
    \E m \in ImageSlots :
        /\ images[m].pc = "fetch"
        /\ images[m].i = 2
        /\ images[m].waits = 2
        /\ Len(images[m].log) = 1
        /\ images[m].log[1].line = "Updated image"
        /\ characters[images[m].characters[1].id].image_path = "Luffy.png"

\* C23 as stated: an image batch that has been started returns its summary,
\* provided its timers fire and its page requests and queries end.
C23_StartedReturnsSummary ==
    \A m \in ImageSlots :
        (images[m].pc = "select")
            ~> (images[m].pc = "done" /\ images[m].summary # NoSummary)

\* C23: an image batch that has read its rows returns its summary, with every
\* row read classified, provided its timers fire and its page requests and
\* queries end; until then only its own steps move it, whatever a
\* synchronisation does to the table meanwhile.
C23_RunsToCompletion ==
    /\ \A m \in ImageSlots :
          (images[m].pc \in {"wait", "fetch", "update"})
              ~> (/\ images[m].pc = "done"
                  /\ images[m].status = 200
                  /\ images[m].summary # NoSummary
                  /\ images[m].summary.total = Len(images[m].characters)
                  /\ Len(images[m].log) = Len(images[m].characters))
    /\ [][\A m \in ImageSlots :
             (images[m].pc \in {"wait", "fetch", "update"} /\ images'[m] # images[m])
             => /\ sync' = sync
                /\ images'[m].characters = images[m].characters
                /\ images'[m].pc = "done"
                   => /\ images'[m].status = 200
                      /\ Len(images'[m].log) = Len(images[m].characters)]_vars

C23_Witness ==
    \E m \in ImageSlots :
        /\ images[m].pc = "done"
        /\ images[m].summary = [total |-> 2, updated |-> 2, skipped |-> 0, failed |-> 0]
        /\ Len(images[m].log) = 2
        /\ sync[1].pc = "done"
        /\ sync[1].status = 200
        /\ images[m].log[2].id \notin DOMAIN characters

\* the label of a cell, and whether it names a character
Label(cell) == Trim(LinkText(cell))

Labelled(cell) ==
    /\ Label(cell) # <<>>
    /\ Len(Label(cell)) > 1
    /\ Label(cell) # <<"N", "a", "m", "e">>

\* the first five cells of a row that name a character
LabelledCells(row) == {i \in DOMAIN row.cells : i <= 5 /\ Labelled(row.cells[i])}

\* the names expected of the rows: one for each row with no fewer cells than least
\* that has a labelled cell among its first five, that of the first such cell
RECURSIVE NamesOfRows(_, _)
NamesOfRows(rows, least) ==
    IF rows = <<>> THEN <<>>
    ELSE LET row == Head(rows)
             first == CHOOSE i \in LabelledCells(row) :
                         \A j \in LabelledCells(row) : i <= j
         IN (IF Len(row.cells) >= least /\ LabelledCells(row) # {}
             THEN <<Join(Trim(CollapseSpaces(Label(row.cells[first]))))>>
             ELSE <<>>)
            \o NamesOfRows(Tail(rows), least)

\* C24 as stated: the scraper returns, in row order, one entry for every row
\* that has among its first five cells one with a label that is non-empty,
\* longer than one character and not "Name", named by the whitespace-normalised
\* label of the first such cell, and nothing for the other rows.
C24_EntryForEveryLabelledRow ==
    rowsOut.called
    => /\ Len(rowsOut.characters) <= Len(rowsIn)
       /\ [k \in DOMAIN rowsOut.characters |-> rowsOut.characters[k].first_name]
             = NamesOfRows(rowsIn, 1)

\* C24: the same for the rows of at least two cells; a row of fewer cells gives
\* no entry, whatever its cell holds.
C24_EntryForLabelledRowOfTwoCells ==
    rowsOut.called
    => /\ Len(rowsOut.characters) <= Len(rowsIn)
       /\ [k \in DOMAIN rowsOut.characters |-> rowsOut.characters[k].first_name]
             = NamesOfRows(rowsIn, 2)
       /\ \A k \in DOMAIN rowsOut.characters :
             /\ rowsOut.characters[k].elo = 1000
             /\ rowsOut.characters[k].wins = 0
             /\ rowsOut.characters[k].losses = 0
             /\ rowsOut.characters[k].recent_change = 0

C24_Witness ==
    /\ rowsOut.called
    /\ rowsIn = <<TableRow(<<Link(Nami)>>, "nami.png"),
                  TableRow(<<Link(<<"N">>), Link(<<" ", "Z", "o", "r", "o", " ">>)>>,
                           "zoro.png")>>
    /\ Len(rowsOut.characters) = 1
    /\ rowsOut.characters[1].first_name = "Zoro"

\* C25: when the INSERT of entry k of a synchronisation fails, the
\* synchronisation ends with that error (500) and the table holds the first
\* k - 1 entries fetched, under the ids generated for them, and no row from
\* before the synchronisation.
C25_InsertFailureKeepsPrefix ==
    [][\A s \in SyncSlots :
          (sync[s].pc = "insert" /\ sync'[s].error = "storage")
          => LET k == sync[s].k
                 first == nextId - (k - 1)
             IN /\ sync'[s].pc = "done"
                /\ sync'[s].status = 500
                /\ characters' = characters
                /\ DOMAIN characters' = first..(nextId - 1)
                /\ \A i \in 1..(k - 1) :
                      characters'[first + i - 1]
                         = Inserted(first + i - 1, sync[s].characters[i])]_vars

C25_Witness ==
    \E s \in SyncSlots :
        /\ sync[s].pc = "done"
        /\ sync[s].error = "storage"
        /\ sync[s].k = 2
        /\ Len(sync[s].characters) = 2
        /\ DOMAIN characters = {nextId - 1}
        /\ nextId - 1 \notin DOMAIN InitCharacters
        /\ characters[nextId - 1].first_name = sync[s].characters[1].first_name

\* C26: when two synchronisations that fetched the same non-empty list of
\* entries have both returned, with no other one started, the table holds each
\* entry fetched exactly once: as many rows as entries, row by row the entries.
C26_NoDuplicatesAfterTwoSyncs ==
    \A s, t \in SyncSlots :
        (/\ s # t
         /\ sync[s].pc = "done" /\ sync[s].status = 200
         /\ sync[t].pc = "done" /\ sync[t].status = 200
         /\ sync[s].characters = sync[t].characters
         /\ Len(sync[s].characters) > 0
         /\ \A u \in SyncSlots \ {s, t} : sync[u].pc = "idle")
        => /\ Cardinality(DOMAIN characters) = Len(sync[s].characters)
           /\ \A k \in DOMAIN sync[s].characters :
                 Cardinality({i \in DOMAIN characters :
                                 Inserted(i, sync[s].characters[k]) = characters[i]}) = 1

=============================================================================
